---- MODULE Spec2Model ----
(***************************************************************************)
(* Model of the hashids crate (src/src/lib.rs): HashidBuilder::ok, the     *)
(* salt-driven shuffle, the integer/symbol codec and HashidCodec's         *)
(* encode / decode pipeline.                                               *)
(*                                                                         *)
(* Strings are sequences of character codes (ASCII codes 0..127; a code    *)
(* above 127 stands for a non-ASCII character).  Sequences are 1-based in  *)
(* TLA+, the source's indices are 0-based: index k of the source is        *)
(* element k+1 here.  A Rust Result is a record tagged "Ok" or "Err"; a    *)
(* panic (index out of range, division by zero, usize underflow, unwrap of *)
(* an Err) is the value Panic.                                             *)
(***************************************************************************)
EXTENDS Integers, Sequences, FiniteSets, TLC

VARIABLES builder, env, codec, other, held, call

vars == <<builder, env, codec, other, held, call>>

(***************************************************************************)
(* Program constants.                                                      *)
(***************************************************************************)
\* "abcdefghijklmnopqrstuvwxyzABCDEFGHIJKLMNOPQRSTUVWXYZ1234567890"
DEFAULT_ALPHABET ==
  <<97,98,99,100,101,102,103,104,105,106,107,108,109,110,111,112,113,114,
    115,116,117,118,119,120,121,122,65,66,67,68,69,70,71,72,73,74,75,76,77,
    78,79,80,81,82,83,84,85,86,87,88,89,90,49,50,51,52,53,54,55,56,57,48>>

DEFAULT_MIN_LENGTH == 4

\* "cfhistuCFHISTU"
DEFAULT_SEPARATORS == <<99,102,104,105,115,116,117,67,70,72,73,83,84,85>>

\* SEPARATOR_DIV is the f32 3.5, kept as the fraction 7/2.
SEPARATOR_DIV_NUM == 7

SEPARATOR_DIV_DEN == 2

GUARD_DIV == 12

MIN_ALPHABET_LENGTH == 16

\* The "magic number" the lottery counter starts from.
LOTTERY_COUNT == 100

\* The blank that decode substitutes for guards and separators.
SPACE == 32

\* char::is_whitespace over ASCII: U+0009..U+000D and U+0020.
is_whitespace(c) == (c >= 9 /\ c <= 13) \/ c = SPACE

(***************************************************************************)
(* Results and options.                                                    *)
(***************************************************************************)
Ok(x) == [tag |-> "Ok", v |-> x]

Err(e) == [tag |-> "Err", err |-> e]

Panic == [tag |-> "Panic"]

None == [some |-> FALSE]

Some(x) == [some |-> TRUE, v |-> x]

(***************************************************************************)
(* String helpers.                                                         *)
(***************************************************************************)
Contains(s, c) == \E k \in 1..Len(s) : s[k] = c

\* &s[a..b] with 0-based, end-exclusive byte indices (callers check the range).
Slice(s, a, b) == SubSeq(s, a + 1, b)

\* str::is_ascii
is_ascii(s) == \A k \in 1..Len(s) : s[k] <= 127

\* Iterator::position(..).unwrap_or(0): 0-based index of the first match, 0 when absent.
PositionOr0(s, c) ==
  IF Contains(s, c) THEN (CHOOSE k \in 1..Len(s) : s[k] = c /\ \A m \in 1..(k-1) : s[m] # c) - 1
  ELSE 0

RECURSIVE Pow(_, _)
\* usize::pow
Pow(b, e) == IF e = 0 THEN 1 ELSE b * Pow(b, e - 1)

RECURSIVE SelectChars(_, _, _)
\* The characters of s, in order, whose membership in t is `keep`.
SelectChars(s, t, keep) ==
  IF s = <<>> THEN <<>>
  ELSE (IF Contains(t, Head(s)) = keep THEN <<Head(s)>> ELSE <<>>)
       \o SelectChars(Tail(s), t, keep)

\* Filters separators out of the alphabet, and alphabet out of separators.
get_non_duplicated_string(separators, alphabet) ==
  [separators |-> SelectChars(separators, alphabet, TRUE),
   alphabet   |-> SelectChars(alphabet, separators, FALSE)]

RECURSIVE UniqueLoop(_, _)
UniqueLoop(rest, unique_alphabet) ==
  IF rest = <<>> THEN unique_alphabet
  ELSE UniqueLoop(Tail(rest),
                  IF Contains(unique_alphabet, Head(rest)) THEN unique_alphabet
                  ELSE Append(unique_alphabet, Head(rest)))

\* First occurrences of each character, in order.
get_unique_alphabet(alphabet) == UniqueLoop(alphabet, <<>>)

(***************************************************************************)
(* hashids_shuffle.                                                        *)
(***************************************************************************)
\* Faulty variant of Swap: the element at i is overwritten and the one it held is lost.
SwapOverwrites(shuffle, i, j) ==
  IF i < 0 \/ j < 0 \/ i >= Len(shuffle) \/ j >= Len(shuffle) THEN Panic
  ELSE Ok([shuffle EXCEPT ![i + 1] = shuffle[j + 1]])

\* slice::swap(i, j) on 0-based indices; out of range panics.
Swap(shuffle, i, j) ==
  IF i < 0 \/ j < 0 \/ i >= Len(shuffle) \/ j >= Len(shuffle) THEN Panic
  ELSE Ok([shuffle EXCEPT ![i + 1] = shuffle[j + 1], ![j + 1] = shuffle[i + 1]])

\* The swap target of one loop iteration: j = (t + v + p) % i.
SwapIndex(t, v, p, i) == (t + v + p) % i

RECURSIVE ShuffleLoop(_, _, _, _, _, _)
\* while i > 0 { ... }; swaps records the <<i, j>> pairs in order.
ShuffleLoop(shuffle, salt_arr, i, v, p, swaps) ==
  IF i > 0 THEN
    LET v1 == v % Len(salt_arr)
        t  == salt_arr[v1 + 1]
        p1 == p + t
        j  == SwapIndex(t, v1, p1, i)
        sw == Swap(shuffle, i, j)
    IN IF sw.tag = "Panic" THEN Panic
       ELSE ShuffleLoop(sw.v, salt_arr, i - 1, v1 + 1, p1, Append(swaps, <<i, j>>))
  ELSE [tag |-> "Ok", v |-> shuffle, swaps |-> swaps]

hashids_shuffle(alphabet, salt) ==
  IF Len(salt) <= 0 THEN Err("MissingSalt")
  ELSE IF Len(alphabet) <= 0 THEN Err("InvalidAlphabetLength")
  ELSE ShuffleLoop(alphabet, salt, Len(alphabet) - 1, 0, 0, <<>>)

(***************************************************************************)
(* Integer <-> symbol codec.                                               *)
(***************************************************************************)
RECURSIVE HashLoopAppends(_, _, _, _)
\* Faulty variant of HashLoop: each digit is put after the ones already
\* produced instead of before them.
HashLoopAppends(input, alphabet, idx, hash_acc) ==
  LET h   == hash_acc \o <<alphabet[idx + 1]>>
      inp == input \div Len(alphabet)
  IN IF inp <= 0 THEN h ELSE HashLoopAppends(inp, alphabet, inp % Len(alphabet), h)

RECURSIVE HashLoop(_, _, _, _)
\* loop { hash = alphabet[idx] + hash; input /= len; ... }
HashLoop(input, alphabet, idx, hash_acc) ==
  LET h   == <<alphabet[idx + 1]>> \o hash_acc
      inp == input \div Len(alphabet)
  IN IF inp <= 0 THEN h ELSE HashLoop(inp, alphabet, inp % Len(alphabet), h)

\* hash(input, alphabet); an empty alphabet is a division by zero.
hash(input, alphabet) ==
  IF Len(alphabet) = 0 THEN Panic
  ELSE Ok(HashLoop(input, alphabet, input % Len(alphabet), <<>>))

RECURSIVE UnhashLoop(_, _, _, _)
UnhashLoop(input, alphabet, i, number) ==
  IF i >= Len(input) THEN number
  ELSE LET position == PositionOr0(alphabet, input[i + 1])
           pow_size == (Len(input) - 1) - i
       IN UnhashLoop(input, alphabet, i + 1,
                     number + position * Pow(Len(alphabet), pow_size))

\* unhash(input, alphabet), on inputs whose value stays inside the machine word.
unhash(input, alphabet) == UnhashLoop(input, alphabet, 0, 0)

(***************************************************************************)
(* HashidBuilder.                                                          *)
(***************************************************************************)
\* HashidBuilder::new()
new == [salt |-> None, alphabet |-> None, min_length |-> None]

with_salt(self, salt) == [self EXCEPT !.salt = Some(salt)]

with_alphabet(self, alphabet) == [self EXCEPT !.alphabet = Some(alphabet)]

with_length(self, length) == [self EXCEPT !.min_length = Some(length)]

\* The custom alphabet validated, or the default one.
BuilderAlphabet(self) ==
  IF ~self.alphabet.some THEN Ok(DEFAULT_ALPHABET)
  ELSE IF ~is_ascii(self.alphabet.v) THEN Err("NonAsciiAlphabet")
  ELSE LET unique == get_unique_alphabet(self.alphabet.v)
       IN IF Len(unique) < MIN_ALPHABET_LENGTH THEN Err("InvalidAlphabetLength")
          ELSE Ok(unique)

\* The custom salt validated, or the HASHID_SALT environment variable.
BuilderSalt(self, env_var) ==
  IF self.salt.some
  THEN IF ~is_ascii(self.salt.v) THEN Err("NonAsciiSalt") ELSE Ok(self.salt.v)
  ELSE IF env_var.some THEN Ok(env_var.v) ELSE Err("MissingSalt")

\* (alphabet_len / shuffled_separators_len) as f32 > SEPARATOR_DIV, on the
\* integer quotient the source computes before the conversion to f32.
NeedsResize(alphabet_len, shuffled_separators_len) ==
  \/ shuffled_separators_len <= 0
  \/ (alphabet_len \div shuffled_separators_len) * SEPARATOR_DIV_DEN > SEPARATOR_DIV_NUM

\* ((alphabet_len as f32) / SEPARATOR_DIV) as usize, raised from 1 to 2.
SepsLen(alphabet_len) ==
  LET seps_len == (alphabet_len * SEPARATOR_DIV_DEN) \div SEPARATOR_DIV_NUM
  IN IF seps_len = 1 THEN 2 ELSE seps_len

\* Faulty variant of ResizeSeparators: the characters appended to the
\* separators are left in the alphabet as well.
ResizeSeparatorsKeepsAlphabet(shuffled_separators, t_alphabet) ==
  LET alphabet_len == Len(t_alphabet)
      shuffled_separators_len == Len(shuffled_separators)
  IN IF NeedsResize(alphabet_len, shuffled_separators_len)
     THEN LET seps_len == SepsLen(alphabet_len)
          IN IF seps_len > shuffled_separators_len
             THEN LET diff == seps_len - shuffled_separators_len
                  IN IF diff > Len(t_alphabet) THEN Panic
                     ELSE Ok([separators |-> shuffled_separators \o Slice(t_alphabet, 0, diff),
                              alphabet   |-> t_alphabet])
             ELSE Ok([separators |-> Slice(shuffled_separators, 0, seps_len),
                      alphabet   |-> t_alphabet])
     ELSE Ok([separators |-> shuffled_separators, alphabet |-> t_alphabet])

\* The separator resize: the pair of pools after it.
ResizeSeparators(shuffled_separators, t_alphabet) ==
  LET alphabet_len == Len(t_alphabet)
      shuffled_separators_len == Len(shuffled_separators)
  IN IF NeedsResize(alphabet_len, shuffled_separators_len)
     THEN LET seps_len == SepsLen(alphabet_len)
          IN IF seps_len > shuffled_separators_len
             THEN LET diff == seps_len - shuffled_separators_len
                  IN IF diff > Len(t_alphabet) THEN Panic
                     ELSE Ok([separators |-> shuffled_separators \o Slice(t_alphabet, 0, diff),
                              alphabet   |-> Slice(t_alphabet, diff, Len(t_alphabet))])
             ELSE Ok([separators |-> Slice(shuffled_separators, 0, seps_len),
                      alphabet   |-> t_alphabet])
     ELSE Ok([separators |-> shuffled_separators, alphabet |-> t_alphabet])

\* Faulty variant of GuardCount: the quotient is rounded down.
GuardCountFloor(alphabet_len) == alphabet_len \div GUARD_DIV

\* (alphabet_len as f32 / GUARD_DIV as f32).ceil() as usize
GuardCount(alphabet_len) == (alphabet_len + GUARD_DIV - 1) \div GUARD_DIV

\* The guards carved from the front of the separators or of the alphabet.
CarveGuards(salt, min_hash_length, alphabet_len, shuffled_separators, shuffled_alphabet) ==
  LET guard_count == GuardCount(alphabet_len)
  IN IF alphabet_len < 3
     THEN IF guard_count > Len(shuffled_separators) THEN Panic
          ELSE Ok([salt |-> salt, min_hash_length |-> min_hash_length,
                   guards |-> Slice(shuffled_separators, 0, guard_count),
                   separators |-> Slice(shuffled_separators, guard_count, Len(shuffled_separators)),
                   alphabet |-> shuffled_alphabet])
     ELSE IF guard_count > Len(shuffled_alphabet) THEN Panic
          ELSE Ok([salt |-> salt, min_hash_length |-> min_hash_length,
                   guards |-> Slice(shuffled_alphabet, 0, guard_count),
                   separators |-> shuffled_separators,
                   alphabet |-> Slice(shuffled_alphabet, guard_count, Len(shuffled_alphabet))])

\* The derivation of the three pools from a validated alphabet and salt.
Derive(alphabet, salt, min_hash_length) ==
  LET nd == get_non_duplicated_string(DEFAULT_SEPARATORS, alphabet)
      shuffled_separators == hashids_shuffle(nd.separators, salt)
      alphabet_len == Len(nd.alphabet)
  IN IF shuffled_separators.tag # "Ok" THEN shuffled_separators
     ELSE LET resized == ResizeSeparators(shuffled_separators.v, nd.alphabet)
          IN IF resized.tag # "Ok" THEN resized
             ELSE LET shuffled_alphabet == hashids_shuffle(resized.v.alphabet, salt)
                  IN IF shuffled_alphabet.tag # "Ok" THEN shuffled_alphabet
                     ELSE CarveGuards(salt, min_hash_length, alphabet_len,
                                      resized.v.separators, shuffled_alphabet.v)

\* HashidBuilder::ok
ok(self, env_var) ==
  LET alphabet == BuilderAlphabet(self)
  IN IF alphabet.tag # "Ok" THEN alphabet
     ELSE LET salt == BuilderSalt(self, env_var)
          IN IF salt.tag # "Ok" THEN salt
             ELSE Derive(alphabet.v, salt.v,
                         IF self.min_length.some THEN self.min_length.v
                         ELSE DEFAULT_MIN_LENGTH)

(***************************************************************************)
(* PositiveInteger: the accepted integer types.                            *)
(***************************************************************************)
IntKinds == {"u32", "u64", "i32", "i64"}

\* PositiveInteger::to_usize.  u64's range check against i64::MAX lies far
\* above every id of the model and is never taken.
to_usize(kind, id) ==
  IF kind \in {"i32", "i64"}
  THEN IF id <= 0 THEN Err("InvalidInputId") ELSE Ok(id)
  ELSE Ok(id)

(***************************************************************************)
(* HashidCodec::encode_vec.                                                *)
(***************************************************************************)
RECURSIVE LotteryLoop(_, _, _, _)
\* for number in numbers { number_hash_int += number % count; count += 1 }
LotteryLoop(numbers, k, count, number_hash_int) ==
  IF k > Len(numbers) THEN number_hash_int
  ELSE LotteryLoop(numbers, k + 1, count + 1, number_hash_int + (numbers[k] % count))

RECURSIVE EncodeLoop(_, _, _, _, _, _)
\* The per-number loop: i is the 0-based position, ret the lottery character.
EncodeLoop(self, numbers, i, ret, t_alphabet, ret_str) ==
  IF i >= Len(numbers) THEN Ok([t_alphabet |-> t_alphabet, ret_str |-> ret_str])
  ELSE
    LET number == numbers[i + 1]
        buffer == ret \o self.salt \o t_alphabet
        sh     == hashids_shuffle(t_alphabet, Slice(buffer, 0, Len(t_alphabet)))
    IN IF sh.tag # "Ok" THEN Panic
       ELSE LET last == hash(number, sh.v)
            IN IF last.tag # "Ok" THEN Panic
               ELSE IF (i + 1) < Len(numbers)
               THEN LET m == last.v[1] + i
                        len == Len(self.separators)
                    IN IF m = 0 \/ len = 0 THEN Panic
                       ELSE LET v == (number % m) % len
                            IN EncodeLoop(self, numbers, i + 1, ret, sh.v,
                                          ret_str \o last.v \o <<self.separators[v + 1]>>)
               ELSE EncodeLoop(self, numbers, i + 1, ret, sh.v, ret_str \o last.v)

\* if ret_str.len() < min_hash_length { guard in front; guard behind }
AddGuards(self, number_hash_int, ret_str) ==
  IF Len(ret_str) < self.min_hash_length
  THEN IF Len(self.guards) = 0 \/ Len(ret_str) < 1 THEN Panic
       ELSE LET guard_idx == (number_hash_int + ret_str[1]) % Len(self.guards)
                r1 == <<self.guards[guard_idx + 1]>> \o ret_str
            IN IF Len(r1) < self.min_hash_length
               THEN IF Len(r1) < 3 THEN Panic
                    ELSE LET guard_idx2 == (number_hash_int + r1[3]) % Len(self.guards)
                         IN Ok(r1 \o <<self.guards[guard_idx2 + 1]>>)
               ELSE Ok(r1)
  ELSE Ok(ret_str)

RECURSIVE PadLoop(_, _, _, _)
\* while ret_str.len() < min_hash_length { wrap in the shuffled alphabet; crop }.
\* excess is a usize: a wrapped string still shorter than min_hash_length
\* underflows it (a panic where overflow is checked, and otherwise a huge
\* start_pos whose slice panics).
PadLoop(self, t_alphabet, half_len, ret_str) ==
  IF Len(ret_str) < self.min_hash_length
  THEN LET sh == hashids_shuffle(t_alphabet, t_alphabet)
       IN IF sh.tag # "Ok" THEN Panic
          ELSE LET t_ret == Slice(sh.v, half_len, Len(sh.v)) \o ret_str
                            \o Slice(sh.v, 0, half_len)
               IN IF Len(t_ret) < self.min_hash_length THEN Panic
                  ELSE LET excess == Len(t_ret) - self.min_hash_length
                           start_pos == excess \div 2
                       IN PadLoop(self, sh.v, half_len,
                                  IF excess > 0
                                  THEN Slice(t_ret, start_pos, start_pos + self.min_hash_length)
                                  ELSE t_ret)
  ELSE Ok(ret_str)

\* encode_vec up to the end of the per-number loop: the seed, the working
\* alphabet and the unpadded string.
EncodeCore(self, numbers) ==
  LET number_hash_int == LotteryLoop(numbers, 1, LOTTERY_COUNT, 0)
  IN IF Len(self.alphabet) = 0 THEN Panic
     ELSE LET idx == number_hash_int % Len(self.alphabet)
              ret == <<self.alphabet[idx + 1]>>
              lp  == EncodeLoop(self, numbers, 0, ret, self.alphabet, ret)
          IN IF lp.tag # "Ok" THEN Panic
             ELSE Ok([number_hash_int |-> number_hash_int,
                      t_alphabet |-> lp.v.t_alphabet,
                      ret_str |-> lp.v.ret_str])

\* HashidCodec::encode_vec: Ok(the returned String), or Panic.
encode_vec(self, numbers) ==
  LET core == EncodeCore(self, numbers)
  IN IF core.tag # "Ok" THEN Panic
     ELSE LET guarded == AddGuards(self, core.v.number_hash_int, core.v.ret_str)
          IN IF guarded.tag # "Ok" THEN Panic
             ELSE PadLoop(self, core.v.t_alphabet, Len(core.v.t_alphabet) \div 2, guarded.v)

\* HashidCodec::encode
encode(self, kind, id) ==
  LET as_usize == to_usize(kind, id)
  IN IF as_usize.tag # "Ok" THEN as_usize
     ELSE encode_vec(self, <<as_usize.v>>)

\* Faulty variant of SelfAfterEncodeVec: the working alphabet of the call is stored
\* back into the codec.
SelfKeepsWorkingAlphabet(self, numbers) ==
  LET core == EncodeCore(self, numbers)
  IN IF core.tag = "Ok" THEN [self EXCEPT !.alphabet = core.v.t_alphabet] ELSE self

\* encode_vec takes &self: the codec after the call is the codec before it.
SelfAfterEncodeVec(self, numbers) == self

(***************************************************************************)
(* HashidCodec::decode.                                                    *)
(***************************************************************************)
\* Regex [class].replace_all(s, " "), for a class of literal characters.
ReplaceAll(s, class) ==
  [k \in 1..Len(s) |-> IF Contains(class, s[k]) THEN SPACE ELSE s[k]]

RECURSIVE SplitLoop(_, _, _, _)
SplitLoop(s, k, cur, acc) ==
  IF k > Len(s) THEN (IF cur = <<>> THEN acc ELSE Append(acc, cur))
  ELSE IF is_whitespace(s[k])
       THEN SplitLoop(s, k + 1, <<>>, IF cur = <<>> THEN acc ELSE Append(acc, cur))
       ELSE SplitLoop(s, k + 1, Append(cur, s[k]), acc)

\* str::split_whitespace().collect()
split_whitespace(s) == SplitLoop(s, 1, <<>>, <<>>)

RECURSIVE DecodeLoop(_, _, _, _, _, _)
\* for s in split2 { shuffle the alphabet; ret.push(unhash(s, alphabet)) }
DecodeLoop(self, split2, k, lottery, alphabet, ret) ==
  IF k > Len(split2) THEN Ok(ret)
  ELSE LET buffer == lottery \o self.salt \o alphabet
           sh == hashids_shuffle(alphabet, Slice(buffer, 0, Len(alphabet)))
       IN IF sh.tag # "Ok" THEN sh
          ELSE DecodeLoop(self, split2, k + 1, lottery, sh.v,
                          Append(ret, unhash(split2[k], sh.v)))

\* decode up to the verification: the recovered integers.  An empty guard or
\* separator class is a regex that does not compile (unwrap panics).
DecodeNumbers(self, hash_str) ==
  IF self.guards = <<>> \/ self.separators = <<>> THEN Panic
  ELSE LET split1 == split_whitespace(ReplaceAll(hash_str, self.guards))
           i == IF Len(split1) = 3 \/ Len(split1) = 2 THEN 1 ELSE 0
       IN IF i >= Len(split1) THEN Panic
          ELSE LET hash_breakdown == split1[i + 1]
                   lottery == Slice(hash_breakdown, 0, 1)
                   split2 == split_whitespace(
                               ReplaceAll(Slice(hash_breakdown, 1, Len(hash_breakdown)),
                                          self.separators))
               IN DecodeLoop(self, split2, 1, lottery, self.alphabet, <<>>)

\* Faulty variant of VerifyHash: the recovered integers are returned unverified.
VerifyHashSkipped(self, hash_str, ret) == Ok(ret)

\* Faulty variant of VerifyHash: only the lengths are compared.
VerifyHashLengthOnly(self, hash_str, ret) ==
  LET check_hash == encode_vec(self, ret)
  IN IF check_hash.tag # "Ok" THEN Panic
     ELSE IF Len(check_hash.v) # Len(hash_str) THEN Err("InvalidHash")
     ELSE Ok(ret)

\* The verification: re-encode and compare with the input.
VerifyHash(self, hash_str, ret) ==
  LET check_hash == encode_vec(self, ret)
  IN IF check_hash.tag # "Ok" THEN Panic
     ELSE IF check_hash.v # hash_str THEN Err("InvalidHash")
     ELSE Ok(ret)

\* HashidCodec::decode
decode(self, hash_str) ==
  IF hash_str = <<>> THEN Err("EmptyHash")
  ELSE LET ret == DecodeNumbers(self, hash_str)
       IN IF ret.tag # "Ok" THEN ret
          ELSE VerifyHash(self, hash_str, ret.v)

(***************************************************************************)
(* Bounds and input sets.                                                  *)
(***************************************************************************)
\* Ids passed to encode range over -1..MaxId.
MaxId == 2

\* encode_vec is called with 2..MaxNums numbers, each drawn from VecIds.
MaxNums == 2

VecIds == {0, 5}

\* Arbitrary strings passed to decode have up to MaxProbeLen characters.
MaxProbeLen == 2

\* The shuffle is applied to sequences of up to MaxSeqLen characters ...
MaxSeqLen == 4

\* ... under salts of up to MaxSaltLen characters.
MaxSaltLen == 2

SeqsUpTo(S, n) == UNION {[1..k -> S] : k \in 0..n}

\* "this is my salt"
SALT_TEST == <<116,104,105,115,32,105,115,32,109,121,32,115,97,108,116>>

\* "this is my pepper"
SALT_PEPPER == <<116,104,105,115,32,105,115,32,109,121,32,112,101,112,112,101,114>>

\* "organic salt"
SALT_ENV == <<111,114,103,97,110,105,99,32,115,97,108,116>>

\* "b"
SALT_B == <<98>>

\* "x"
SALT_X == <<120>>

\* A salt with a non-ASCII character (U+6F22).
SALT_NON_ASCII == <<28450, 97>>

\* "abcdefghijklm": 13 distinct characters.
ALPHABET_13 == <<97,98,99,100,101,102,103,104,105,106,107,108,109>>

\* "ABCDEFGHIJKabcdefghijk": 22 distinct characters.
ALPHABET_22 ==
  <<65,66,67,68,69,70,71,72,73,74,75,97,98,99,100,101,102,103,104,105,106,107>>

\* "cfhistuCFHISTUab": 16 distinct characters, 14 of them default separators.
ALPHABET_16_SEPS == <<99,102,104,105,115,116,117,67,70,72,73,83,84,85,97,98>>

\* "cfhistuCFHISTUabb": 17 characters, 16 distinct.
ALPHABET_16_DUP == <<99,102,104,105,115,116,117,67,70,72,73,83,84,85,97,98,98>>

\* "cfhistuCFHISTUaa": 16 characters, 15 distinct.
ALPHABET_15_DUP == <<99,102,104,105,115,116,117,67,70,72,73,83,84,85,97,97>>

\* "cfhistuCFHISTU a": 16 distinct characters, one of them the blank.
ALPHABET_16_BLANK == <<99,102,104,105,115,116,117,67,70,72,73,83,84,85,32,97>>

\* "0123456789abdegj": 16 distinct characters, none a default separator.
ALPHABET_16_NOSEP == <<48,49,50,51,52,53,54,55,56,57,97,98,100,101,103,106>>

\* "0123456789abdegc": 16 distinct characters, one default separator.
ALPHABET_16_ONESEP == <<48,49,50,51,52,53,54,55,56,57,97,98,100,101,103,99>>

\* An alphabet of 20 characters, the first one non-ASCII (U+3042).
ALPHABET_NON_ASCII ==
  <<12354,98,99,100,101,102,103,104,105,106,107,108,109,110,111,112,113,114,115,116>>

BuildSalts == {SALT_TEST, SALT_PEPPER, <<>>, SALT_NON_ASCII}

BuildAlphabets ==
  {ALPHABET_13, ALPHABET_22, ALPHABET_16_SEPS, ALPHABET_16_DUP, ALPHABET_15_DUP,
   ALPHABET_16_BLANK, ALPHABET_16_NOSEP, ALPHABET_16_ONESEP, ALPHABET_NON_ASCII}

BuildLengths == {0, 8}

\* The configurations the codec is exercised under: a builder and the salt
\* of a second codec built from the same alphabet and minimum length.
Config(salt, salt2, alphabet, min_length) ==
  [builder |-> [salt |-> Some(salt), alphabet |-> alphabet, min_length |-> min_length],
   salt2 |-> salt2]

CodecConfigs ==
  { Config(SALT_TEST, SALT_B, None, None),
    Config(SALT_TEST, SALT_PEPPER, Some(ALPHABET_22), None),
    Config(SALT_TEST, SALT_PEPPER, Some(ALPHABET_22), Some(2)),
    Config(SALT_TEST, SALT_B, Some(ALPHABET_16_SEPS), None),
    Config(SALT_TEST, SALT_B, Some(ALPHABET_16_SEPS), Some(6)),
    Config(SALT_TEST, SALT_B, Some(ALPHABET_16_SEPS), Some(8)),
    Config(SALT_TEST, SALT_X, Some(ALPHABET_16_ONESEP), Some(9)),
    Config(SALT_TEST, SALT_B, Some(ALPHABET_16_BLANK), Some(0)) }

\* '!': a character of no pool of any configuration above.
FOREIGN == 33

\* The characters arbitrary decode inputs are made of: one of each pool, a
\* foreign character and the blank.
ProbeChars(c) == {c.alphabet[1], c.guards[1], c.separators[1], FOREIGN, SPACE}

\* h with its k-th character replaced by the foreign character.
Tamper(h, k) == [h EXCEPT ![k] = FOREIGN]

\* Arbitrary short strings.
Probes(c) == SeqsUpTo(ProbeChars(c), MaxProbeLen)

\* The hash in hand, as it is and with one character replaced.
HeldInputs(h) ==
  IF h.some THEN {h.v.hash} \cup {Tamper(h.v.hash, k) : k \in 1..Len(h.v.hash)} ELSE {}

NotBuilt == [tag |-> "None"]

(***************************************************************************)
(* The codec in use: one codec (and a second one with another salt), built *)
(* once, then any sequence of encode and decode calls.                     *)
(***************************************************************************)
Init ==
  \E cfg \in CodecConfigs :
    /\ builder = cfg.builder
    /\ env = None
    /\ codec = ok(cfg.builder, None)
    /\ other = ok(with_salt(cfg.builder, cfg.salt2), None)
    /\ held = None
    /\ call = [op |-> "ok"]

\* The caller keeps the hash the last successful encode call returned.
Hold(numbers, res) ==
  IF res.tag = "Ok" THEN Some([numbers |-> numbers, hash |-> res.v]) ELSE held

\* The hash in hand, when the call encodes its numbers again.
Before(numbers) ==
  IF held.some /\ held.v.numbers = numbers THEN Some(held.v.hash) ELSE None

\* codec.encode(id) with id of one of the accepted integer types.
Encode(kind, id) ==
  /\ codec.tag = "Ok"
  /\ LET as_usize == to_usize(kind, id)
         res == encode(codec.v, kind, id)
     IN /\ call' = [op |-> "encode", kind |-> kind, id |-> id,
                    numbers |-> <<id>>, res |-> res, before |-> Before(<<id>>)]
        /\ held' = Hold(<<id>>, res)
        /\ codec' = IF as_usize.tag = "Ok"
                    THEN Ok(SelfAfterEncodeVec(codec.v, <<as_usize.v>>))
                    ELSE codec
  /\ UNCHANGED <<builder, env, other>>

\* codec.encode_vec(&numbers), the crate-internal call with several numbers.
EncodeVec(numbers) ==
  /\ codec.tag = "Ok"
  /\ LET res == encode_vec(codec.v, numbers)
     IN /\ call' = [op |-> "encode_vec", numbers |-> numbers, res |-> res,
                    before |-> Before(numbers)]
        /\ held' = Hold(numbers, res)
        /\ codec' = Ok(SelfAfterEncodeVec(codec.v, numbers))
  /\ UNCHANGED <<builder, env, other>>

\* codec.decode(hash)
Decode(hash_str) ==
  /\ codec.tag = "Ok"
  /\ call' = [op |-> "decode", hash |-> hash_str, res |-> decode(codec.v, hash_str)]
  /\ UNCHANGED <<builder, env, codec, other, held>>

\* other.decode(hash): the held hash handed to the codec of the other salt.
DecodeOther ==
  /\ codec.tag = "Ok" /\ other.tag = "Ok" /\ held.some
  /\ call' = [op |-> "decode_other", hash |-> held.v.hash,
              res |-> decode(other.v, held.v.hash)]
  /\ UNCHANGED <<builder, env, codec, other, held>>

Next ==
  \/ \E kind \in IntKinds : \E id \in (0 - 1)..MaxId :
       (kind \in {"u32", "u64"} => id >= 0) /\ Encode(kind, id)
  \/ \E numbers \in SeqsUpTo(VecIds, MaxNums) : Len(numbers) >= 2 /\ EncodeVec(numbers)
  \/ \E hash_str \in HeldInputs(held) : Decode(hash_str)
  \/ DecodeOther

Spec == Init /\ [][Next]_vars

(***************************************************************************)
(* decode over arbitrary strings.                                          *)
(***************************************************************************)
NextDecode == \E hash_str \in Probes(codec.v) : codec.tag = "Ok" /\ Decode(hash_str)

SpecDecode == Init /\ [][NextDecode]_vars

(***************************************************************************)
(* The builder: new(), any chain of with_ calls, then ok().                *)
(***************************************************************************)
InitBuild ==
  /\ builder = new
  /\ env \in {None, Some(SALT_ENV)}
  /\ codec = NotBuilt
  /\ other = NotBuilt
  /\ held = None
  /\ call = [op |-> "new"]

WithSalt(salt) ==
  /\ codec = NotBuilt
  /\ builder' = with_salt(builder, salt)
  /\ call' = [op |-> "with_salt"]
  /\ UNCHANGED <<env, codec, other, held>>

WithAlphabet(alphabet) ==
  /\ codec = NotBuilt
  /\ builder' = with_alphabet(builder, alphabet)
  /\ call' = [op |-> "with_alphabet"]
  /\ UNCHANGED <<env, codec, other, held>>

WithLength(length) ==
  /\ codec = NotBuilt
  /\ builder' = with_length(builder, length)
  /\ call' = [op |-> "with_length"]
  /\ UNCHANGED <<env, codec, other, held>>

\* builder.ok(): the builder is consumed, the codec (or the error) remains.
BuildOk ==
  /\ codec = NotBuilt
  /\ codec' = ok(builder, env)
  /\ call' = [op |-> "ok"]
  /\ UNCHANGED <<builder, env, other, held>>

NextBuild ==
  \/ \E salt \in BuildSalts : WithSalt(salt)
  \/ \E alphabet \in BuildAlphabets : WithAlphabet(alphabet)
  \/ \E length \in BuildLengths : WithLength(length)
  \/ BuildOk

SpecBuild == InitBuild /\ [][NextBuild]_vars

(***************************************************************************)
(* The derivation over alphabets of every shape: sep_count characters of   *)
(* DEFAULT_SEPARATORS followed by other_count other characters.            *)
(***************************************************************************)
\* Alphabets have up to MaxOtherCount characters outside DEFAULT_SEPARATORS.
MaxOtherCount == 36

\* The characters of DEFAULT_ALPHABET that are no default separators.
NON_SEPARATORS == SelectChars(DEFAULT_ALPHABET, DEFAULT_SEPARATORS, FALSE)

AlphabetOf(sep_count, other_count) ==
  Slice(DEFAULT_SEPARATORS, 0, sep_count) \o Slice(NON_SEPARATORS, 0, other_count)

\* The custom alphabets: every split with enough distinct characters, as it
\* is and with its first character repeated at the end.
DeriveAlphabets ==
  LET shapes == {a \in (0..Len(DEFAULT_SEPARATORS)) \X (2..MaxOtherCount) :
                   /\ a[2] <= Len(NON_SEPARATORS)
                   /\ a[1] + a[2] >= MIN_ALPHABET_LENGTH}
  IN UNION {{AlphabetOf(a[1], a[2]), Append(AlphabetOf(a[1], a[2]), AlphabetOf(a[1], a[2])[1])}
            : a \in shapes}

InitDerive ==
  /\ \E alphabet \in DeriveAlphabets : \E salt \in {SALT_TEST, SALT_B} :
       builder = with_alphabet(with_salt(new, salt), alphabet)
  /\ env = None
  /\ codec = NotBuilt
  /\ other = NotBuilt
  /\ held = None
  /\ call = [op |-> "with_alphabet"]

NextDerive == BuildOk

SpecDerive == InitDerive /\ [][NextDerive]_vars

(***************************************************************************)
(* hash and unhash as pure functions of an integer and an alphabet.        *)
(***************************************************************************)
\* Alphabets passed to hash have 2..MaxBase distinct characters ...
MaxBase == 3

\* ... and the integers range over 0..MaxHashInput.
MaxHashInput == 40

\* Every arrangement of 2..MaxBase distinct characters out of "abcd".
HashAlphabets ==
  {s \in SeqsUpTo({97, 98, 99, 100}, MaxBase) :
     Len(s) >= 2 /\ Cardinality({s[k] : k \in 1..Len(s)}) = Len(s)}

\* The small alphabets with every small integer, and the inputs of the
\* unit tests: 500 and 0 under DEFAULT_ALPHABET.
HashArgs ==
  ((0..MaxHashInput) \X HashAlphabets)
    \cup {<<500, DEFAULT_ALPHABET>>, <<0, DEFAULT_ALPHABET>>}

InitHash ==
  /\ builder = new
  /\ env = None
  /\ codec = NotBuilt
  /\ other = NotBuilt
  /\ held = None
  /\ \E args \in HashArgs : call = [op |-> "hash_args", input |-> args[1], alphabet |-> args[2]]

\* hash(input, &alphabet)
Hash ==
  /\ call.op = "hash_args"
  /\ call' = [op |-> "hash", input |-> call.input, alphabet |-> call.alphabet,
              res |-> hash(call.input, call.alphabet)]
  /\ UNCHANGED <<builder, env, codec, other, held>>

\* unhash(hash, &alphabet) on the string hash returned
Unhash ==
  /\ call.op = "hash" /\ call.res.tag = "Ok"
  /\ call' = [op |-> "unhash", input |-> call.input, alphabet |-> call.alphabet,
              hash |-> call.res.v, res |-> unhash(call.res.v, call.alphabet)]
  /\ UNCHANGED <<builder, env, codec, other, held>>

NextHash == Hash \/ Unhash

SpecHash == InitHash /\ [][NextHash]_vars

(***************************************************************************)
(* The shuffle as a pure function of a sequence and a salt.                *)
(***************************************************************************)
\* "anything really goes"
SHUFFLE_TEST_INPUT ==
  <<97,110,121,116,104,105,110,103,32,114,101,97,108,108,121,32,103,111,101,115>>

ShuffleArgs ==
  ((SeqsUpTo({97, 98, 99}, MaxSeqLen) \X SeqsUpTo({97, 122}, MaxSaltLen))
   \cup {<<SHUFFLE_TEST_INPUT, SALT_TEST>>})

InitShuffle ==
  /\ builder = new
  /\ env = None
  /\ codec = NotBuilt
  /\ other = NotBuilt
  /\ held = None
  /\ \E args \in ShuffleArgs : call = [op |-> "args", alphabet |-> args[1], salt |-> args[2]]

\* hashids_shuffle(alphabet, &salt)
Shuffle ==
  /\ call.op = "args"
  /\ call' = [op |-> "hashids_shuffle", alphabet |-> call.alphabet, salt |-> call.salt,
              res |-> hashids_shuffle(call.alphabet, call.salt)]
  /\ UNCHANGED <<builder, env, codec, other, held>>

NextShuffle == Shuffle

SpecShuffle == InitShuffle /\ [][NextShuffle]_vars

(***************************************************************************)
(* Properties.                                                             *)
(***************************************************************************)
IsEncodeCall == call.op \in {"encode", "encode_vec"}

\* The set of characters of a string.
Chars(s) == {s[k] : k \in 1..Len(s)}

\* No character occurs twice in s.
NoRepeat(s) == Cardinality(Chars(s)) = Len(s)

\* The alphabet handed to ok(): the custom one or the default.
InputAlphabet == IF builder.alphabet.some THEN builder.alphabet.v ELSE DEFAULT_ALPHABET

\* The characters of the three pools of a codec.
PoolChars(c) ==
  {c.alphabet[k] : k \in 1..Len(c.alphabet)}
    \cup {c.separators[k] : k \in 1..Len(c.separators)}
    \cup {c.guards[k] : k \in 1..Len(c.guards)}

\* The number of occurrences of c in s.
Count(s, c) == Cardinality({k \in 1..Len(s) : s[k] = c})

\* C1: Round trip.  Decoding the hash that encode returned for the numbers N,
\* under the same codec, returns Ok(N), whatever the salt, the accepted
\* alphabet and the minimum length of the configuration.
C1_RoundTrip ==
  (call.op = "decode" /\ held.some /\ call.hash = held.v.hash)
    => call.res = Ok(held.v.numbers)

\* C2: Minimum length.  Every encode call that accepts its input returns a
\* string of at least min_hash_length characters, and of exactly
\* min_hash_length characters when the unpadded hash is shorter than that.
C2_MinLength ==
  (IsEncodeCall /\ call.res.tag # "Err")
    => /\ call.res.tag = "Ok"
       /\ Len(call.res.v) >= codec.v.min_hash_length
       /\ LET core == EncodeCore(codec.v, call.numbers)
          IN (core.tag = "Ok" /\ Len(core.v.ret_str) < codec.v.min_hash_length)
               => Len(call.res.v) = codec.v.min_hash_length

C4_AlphabetGate ==
  (/\ call.op = "ok"
   /\ builder.alphabet.some /\ is_ascii(builder.alphabet.v)
   /\ builder.salt.some /\ builder.salt.v # <<>> /\ is_ascii(builder.salt.v))
    => LET distinct == Cardinality({builder.alphabet.v[k] : k \in 1..Len(builder.alphabet.v)})
       IN /\ distinct < MIN_ALPHABET_LENGTH => codec = Err("InvalidAlphabetLength")
          /\ distinct = MIN_ALPHABET_LENGTH => codec.tag = "Ok"

\* C5: Every string decode accepts is a genuine encoding.  When decode
\* returns Ok(N), encode_vec(N) is the input string byte for byte; when the
\* re-encoding of the recovered integers differs from the input, decode
\* returns Err(InvalidHash).
C5_DecodeAcceptsOnlyEncodings ==
  (call.op = "decode" /\ call.hash # <<>>)
    => /\ call.res.tag = "Ok" => encode_vec(codec.v, call.res.v) = Ok(call.hash)
       /\ LET ret == DecodeNumbers(codec.v, call.hash)
          IN (ret.tag = "Ok" /\ encode_vec(codec.v, ret.v).tag = "Ok"
                /\ encode_vec(codec.v, ret.v).v # call.hash)
               => call.res = Err("InvalidHash")

\* A padded hash of two numbers that decode accepts.
C5_Witness ==
  /\ call.op = "decode"
  /\ call.res.tag = "Ok"
  /\ Len(call.res.v) = 2
  /\ Len(call.hash) = codec.v.min_hash_length
  /\ codec.v.min_hash_length > 0

\* C6: decode is total over strings.  It never aborts; it returns
\* Err(EmptyHash) exactly for the empty string, and Ok or Err(InvalidHash)
\* for every other string.
C6_DecodeTotal ==
  call.op = "decode"
    => /\ call.res.tag # "Panic"
       /\ (call.res = Err("EmptyHash")) <=> (call.hash = <<>>)
       /\ call.hash # <<>> => (call.res.tag = "Ok" \/ call.res = Err("InvalidHash"))

\* C7: Foreign characters are rejected.  Decoding a non-empty string with a
\* character of none of the three pools returns Err(InvalidHash).
C7_ForeignRejected ==
  (/\ call.op = "decode"
   /\ \E k \in 1..Len(call.hash) : call.hash[k] \notin PoolChars(codec.v))
    => call.res = Err("InvalidHash")

\* C8: encode(id) returns Err(InvalidInputId) exactly when id is negative;
\* 0 is a valid input of every accepted integer type.
C8_EncodeRejectsExactlyNegatives ==
  call.op = "encode" => ((call.res = Err("InvalidInputId")) <=> (call.id < 0))

C10_ShufflePermutation ==
  (call.op = "hashids_shuffle" /\ call.alphabet # <<>> /\ call.salt # <<>>)
    => /\ call.res.tag = "Ok"
       /\ Len(call.res.v) = Len(call.alphabet)
       /\ \A k \in 1..Len(call.alphabet) :
            Count(call.res.v, call.alphabet[k]) = Count(call.alphabet, call.alphabet[k])
       /\ Len(call.alphabet) = 1 => call.res.v = call.alphabet
       /\ Len(call.res.swaps) = Len(call.alphabet) - 1
       /\ \A n \in 1..Len(call.res.swaps) :
            LET i == call.res.swaps[n][1]
                j == call.res.swaps[n][2]
            IN i = Len(call.alphabet) - n /\ 0 <= j /\ j < i

\* A sequence of at least three characters that the shuffle rearranges.
C10_Witness ==
  /\ call.op = "hashids_shuffle"
  /\ Len(call.alphabet) >= 3
  /\ call.salt # <<>>
  /\ call.res.tag = "Ok"
  /\ call.res.v # call.alphabet

\* C11: In every configuration ok() returns, the alphabet, separators and
\* guards pools are pairwise disjoint, none repeats a character, and together
\* they hold exactly the characters of the input alphabet.
C11_PoolsPartition ==
  (call.op = "ok" /\ codec.tag = "Ok")
    => LET c == codec.v
       IN /\ Chars(c.alphabet) \cap Chars(c.separators) = {}
          /\ Chars(c.alphabet) \cap Chars(c.guards) = {}
          /\ Chars(c.separators) \cap Chars(c.guards) = {}
          /\ NoRepeat(c.alphabet) /\ NoRepeat(c.separators) /\ NoRepeat(c.guards)
          /\ Chars(c.alphabet) \cup Chars(c.separators) \cup Chars(c.guards)
               = Chars(InputAlphabet)

\* A configuration derived from an alphabet with a repeated character, whose
\* separators were extended with characters of the alphabet.
C11_Witness ==
  /\ call.op = "ok" /\ codec.tag = "Ok"
  /\ ~NoRepeat(InputAlphabet)
  /\ Chars(codec.v.separators) \ Chars(DEFAULT_SEPARATORS) # {}
  /\ codec.v.guards # <<>>

\* The separators as the resize left them: the guards are carved from them
\* when the alphabet had fewer than 3 characters.
SeparatorsAfterResize(c, alphabet_len) ==
  IF alphabet_len < 3 THEN Len(c.separators) + Len(c.guards) ELSE Len(c.separators)

\* C12: Separator resize trigger.  With alphabet_len and separators_len the
\* sizes of the two pools after the partition, the separators are resized to
\* max(2, floor(alphabet_len / 3.5)) characters whenever separators_len is 0
\* or the real ratio alphabet_len / separators_len is greater than 3.5, and
\* keep their size otherwise.
C12_ResizeOnRealRatio ==
  (call.op = "ok" /\ codec.tag = "Ok")
    => LET alphabet_len == Cardinality(Chars(InputAlphabet) \ Chars(DEFAULT_SEPARATORS))
           separators_len == Cardinality(Chars(InputAlphabet) \cap Chars(DEFAULT_SEPARATORS))
           floor_len == (alphabet_len * SEPARATOR_DIV_DEN) \div SEPARATOR_DIV_NUM
           target == IF floor_len < 2 THEN 2 ELSE floor_len
           after == SeparatorsAfterResize(codec.v, alphabet_len)
       IN IF separators_len = 0
             \/ alphabet_len * SEPARATOR_DIV_DEN > SEPARATOR_DIV_NUM * separators_len
          THEN after = target
          ELSE after = separators_len

\* The guards of c were carved from the separators: they are default
\* separators, which the alphabet pool never holds.
GuardsFromSeparators(c) == Chars(c.guards) \subseteq Chars(DEFAULT_SEPARATORS)

\* C13: Guard count.  The number of guards is ceil(L / 12), L the length of
\* the alphabet after the separator resize and before the guards are
\* removed, and the guards are carved from the separators exactly when L < 3.
C13_GuardCountAfterResize ==
  (call.op = "ok" /\ codec.tag = "Ok")
    => LET c == codec.v
           L == IF GuardsFromSeparators(c) THEN Len(c.alphabet)
                ELSE Len(c.alphabet) + Len(c.guards)
       IN /\ Len(c.guards) = (L + GUARD_DIV - 1) \div GUARD_DIV
          /\ GuardsFromSeparators(c) <=> L < 3

RECURSIVE Numeral(_, _)
\* The base-Len(alphabet) numeral of n, most significant digit first: the
\* numeral of the quotient followed by the digit of the remainder.
Numeral(n, alphabet) ==
  IF n < Len(alphabet) THEN <<alphabet[n + 1]>>
  ELSE Append(Numeral(n \div Len(alphabet), alphabet), alphabet[(n % Len(alphabet)) + 1])

\* C14: Integer-symbol codec.  For an alphabet of at least 2 distinct
\* characters and n >= 0, hash(n, A) is the base-|A| numeral of n with the
\* most significant digit first (a single first character for 0, no leading
\* first character otherwise), and unhash(hash(n, A), A) = n.
C14_HashIsNumeral ==
  /\ call.op = "hash"
       => /\ call.res = Ok(Numeral(call.input, call.alphabet))
          /\ call.input = 0 => call.res.v = <<call.alphabet[1]>>
          /\ call.input > 0 => call.res.v[1] # call.alphabet[1]
  /\ call.op = "unhash" => call.res = call.input

\* A numeral of three or more digits, one of them the first character of
\* the alphabet, read back by unhash.
C14_Witness ==
  /\ call.op = "unhash"
  /\ Len(call.hash) >= 3
  /\ \E k \in 2..Len(call.hash) : call.hash[k] = call.alphabet[1]
  /\ call.res = call.input

\* C15: In every configuration ok() returns, the working alphabet has at
\* least 2 characters and the separators and the guards at least 1 each, so
\* no modulus by a pool length divides by zero and the digit loop of hash
\* ends.
C15_PoolsNonEmpty ==
  (call.op = "ok" /\ codec.tag = "Ok")
    => /\ Len(codec.v.alphabet) >= 2
       /\ Len(codec.v.separators) >= 1
       /\ Len(codec.v.guards) >= 1
       /\ hash(Len(codec.v.alphabet), codec.v.alphabet).tag = "Ok"

\* The smallest pools: an alphabet of 2 characters and a single guard, cut
\* from the separators.
C15_Witness ==
  /\ call.op = "ok" /\ codec.tag = "Ok"
  /\ Len(codec.v.alphabet) = 2
  /\ Len(codec.v.guards) = 1
  /\ GuardsFromSeparators(codec.v)

====
